---- MODULE Spec2Model ----
(***************************************************************************)
(* Two user-interface components of the desktop Git client:                *)
(*                                                                         *)
(*   - AddExistingRepository, the "add local repository" dialog            *)
(*     (src/unnamed/part_000): a path, a tri-state validity flag and a     *)
(*     request token that guards asynchronous validity checks;             *)
(*   - AuthorInput (src/app/src/ui/lib/author-input.tsx): a CodeMirror     *)
(*     document with a label, a placeholder and handle marks, and the      *)
(*     helpers that compute hint ranges over it.                           *)
(*                                                                         *)
(* The two components are independent; DialogSpec and EditorSpec are the   *)
(* specifications of the one and the other.                                *)
(***************************************************************************)
EXTENDS Integers, Sequences, FiniteSets, TLC

VARIABLES
  \* ---- AddExistingRepository ----
  path,                     \* this.state.path (a sequence of characters)
  isGitRepository,          \* this.state.isGitRepository: "true" | "false" | "null"
  checkGitRepositoryToken,  \* this.checkGitRepositoryToken
  checks,                   \* every call of checkIfPathIsRepository, in issue order:
                            \*   its captured token and path argument, and where it
                            \*   stands ("pending" at the await, else its outcome)
  submits,                  \* every call of addRepository, in call order
  dlgEvent,                 \* the handler that ran last and its input
  \* ---- AuthorInput ----
  text,                     \* the editor document's content (a sequence of characters)
  marks,                    \* the document's text markers: label, placeholder, handles
  anchor,                   \* the selection's anchor (a document index)
  head,                     \* the selection's head, the cursor (a document index)
  hintActive,               \* this.hintActive
  collapsed,                \* this.placeholder.collapsed: "undefined" | "true" | "false"
  cmEvent,                  \* the editor operation that ran last and what its
                            \*   handlers did
  \* ---- AuthorInput: refresh on resize ----
  editor,                   \* whether this.editor is set (the container is mounted)
  resizeDebounceId,         \* this.resizeDebounceId (NullId for null)
  frameCallbacks,           \* the browser's pending animation frame requests (ids)
  lastRequestId,            \* the id requestAnimationFrame returned last
  frameRefreshes,           \* the calls of editor.refresh() in the frame that ran last
  rsEvent                   \* the callback that ran last

editorVars == <<text, marks, anchor, head, hintActive, collapsed, cmEvent>>

resizeVars == <<editor, resizeDebounceId, frameCallbacks, lastRequestId, frameRefreshes, rsEvent>>

dialogVars == <<path, isGitRepository, checkGitRepositoryToken, checks, submits, dlgEvent>>

vars == <<dialogVars, editorVars, resizeVars>>

----------------------------------------------------------------------------
(* Bounds of the dialog model *)

MaxChecks == 2     \* calls of checkIfPathIsRepository in one behaviour
MaxSubmits == 1    \* calls of addRepository in one behaviour

(* The home directory untildify substitutes for a leading tilde *)
HomeDir == <<"/", "h">>

(* Values a text-box change event can carry *)
TypedPaths == { <<>>, <<"~", "/", "r">>, <<"~", "r">> }

(* Directories the native picker can return (a non-empty selection) *)
PickedDirectories == { <<"/", "r">> }

(* What remote.dialog.showOpenDialog returns: null, or a list of directories *)
PickerResults ==
  { [isNull |-> TRUE, items |-> <<>>] } \cup
  { [isNull |-> FALSE, items |-> <<d>>] : d \in PickedDirectories }

(* What the dispatcher's addRepositories resolves to for a list of paths *)
AddRepositoriesResults(paths) ==
  { [isNull |-> TRUE, items |-> <<>>],
    [isNull |-> FALSE, items |-> <<>>],
    [isNull |-> FALSE, items |-> paths] }

(* What addRepositories has not resolved to yet *)
NotReturned == [isNull |-> TRUE, items |-> <<>>]

NoEvent == [op |-> "none", arg |-> <<>>, token |-> 0, answer |-> "null"]

----------------------------------------------------------------------------
(* AddExistingRepository: helpers *)

(* untildify: a leading "~" that is the whole string or is followed by a   *)
(* path separator is replaced by the home directory                        *)
untildify(str) ==
  IF /\ Len(str) >= 1
     /\ str[1] = "~"
     /\ (Len(str) = 1 \/ str[2] \in {"/", "\\"})
  THEN HomeDir \o SubSeq(str, 2, Len(str))
  ELSE str

resolvedPath(p) == untildify(p)

(* Variant: the pending flag does not disable the button *)
disabled_ignoresPending == Len(path) = 0

(* render: the submit button's disabled attribute *)
disabled == Len(path) = 0 \/ isGitRepository = "null"

(* renderWarning: whether the "not a git repository" warning is shown *)
renderWarning == ~(Len(path) = 0 \/ isGitRepository = "true")

(* Variant: the counter is read but not incremented *)
nextToken_notIncremented == checkGitRepositoryToken

(* The token a call of checkIfPathIsRepository captures: ++this.token *)
nextToken == checkGitRepositoryToken + 1

(* Variants: the guard after the await is missing, or lets older tokens in *)
tokenIsCurrent_noGuard(token) == TRUE

tokenIsCurrent_olderPasses(token) == token <= checkGitRepositoryToken

(* The guard after the await: the captured token is still the current one *)
tokenIsCurrent(token) == token = checkGitRepositoryToken

(* The indices of the calls still waiting at the await *)
pendingChecks == { i \in 1..Len(checks) : checks[i].outcome = "pending" }

----------------------------------------------------------------------------
(* AddExistingRepository: operations *)

DialogInit ==
  /\ path = <<>>
  /\ isGitRepository = "false"
  /\ checkGitRepositoryToken = 0
  /\ checks = <<>>
  /\ submits = <<>>
  /\ dlgEvent = NoEvent

(* Variant: a change to the path already shown is ignored *)
checkIfPathIsRepository_skipsSamePath(p) ==
  IF p = path
  THEN UNCHANGED <<path, isGitRepository, checkGitRepositoryToken, checks>>
  ELSE /\ path' = p
       /\ isGitRepository' = "null"
       /\ checkGitRepositoryToken' = nextToken
       /\ checks' = Append(checks, [token |-> nextToken, path |-> p,
                                    arg |-> resolvedPath(p), outcome |-> "pending"])

(* Variant: the flag is not reset when a check is issued *)
checkIfPathIsRepository_keepsFlag(p) ==
  /\ path' = p
  /\ isGitRepository' = isGitRepository
  /\ checkGitRepositoryToken' = nextToken
  /\ checks' = Append(checks, [token |-> nextToken, path |-> p,
                               arg |-> resolvedPath(p), outcome |-> "pending"])

(* checkIfPathIsRepository up to its await: setState, take a token, call   *)
(* the predicate with the resolved path                                    *)
checkIfPathIsRepository(p) ==
  /\ path' = p
  /\ isGitRepository' = "null"
  /\ checkGitRepositoryToken' = nextToken
  /\ checks' = Append(checks, [token |-> nextToken, path |-> p,
                               arg |-> resolvedPath(p), outcome |-> "pending"])

(* The text box's change event *)
onPathChanged(p) ==
  /\ Len(checks) < MaxChecks
  /\ checkIfPathIsRepository(p)
  /\ dlgEvent' = [op |-> "onPathChanged", arg |-> p, token |-> 0, answer |-> "null"]
  /\ UNCHANGED submits

(* Variant: a cancelled picker is treated as the empty path *)
showFilePicker_noCancelReturn(directory) ==
  /\ Len(checks) < MaxChecks
  /\ checkIfPathIsRepository(IF directory.isNull THEN <<>> ELSE directory.items[1])
  /\ dlgEvent' = [op |-> IF directory.isNull THEN "showFilePickerCancelled"
                                             ELSE "showFilePickerChosen",
                  arg |-> IF directory.isNull THEN <<>> ELSE directory.items[1],
                  token |-> 0, answer |-> "null"]
  /\ UNCHANGED submits

(* The Choose... button: the native picker returns directory *)
showFilePicker(directory) ==
  /\ IF directory.isNull
     THEN UNCHANGED <<path, isGitRepository, checkGitRepositoryToken, checks>>
     ELSE /\ Len(checks) < MaxChecks
          /\ checkIfPathIsRepository(directory.items[1])
  /\ dlgEvent' = [op |-> IF directory.isNull THEN "showFilePickerCancelled"
                                             ELSE "showFilePickerChosen",
                  arg |-> IF directory.isNull THEN <<>> ELSE directory.items[1],
                  token |-> 0, answer |-> "null"]
  /\ UNCHANGED submits

(* checkIfPathIsRepository after its await: call i resumes with isRepo *)
checkResolved(i, isRepo) ==
  /\ i \in pendingChecks
  /\ checks' = [checks EXCEPT ![i].outcome = isRepo]
  /\ IF ~tokenIsCurrent(checks[i].token)
     THEN UNCHANGED <<path, isGitRepository>>
     ELSE /\ path' = path
          /\ isGitRepository' = isRepo
  /\ dlgEvent' = [op |-> "checkResolved", arg |-> checks[i].path,
                  token |-> checks[i].token, answer |-> isRepo]
  /\ UNCHANGED <<checkGitRepositoryToken, submits>>

(* Variant: a rejection is caught and reported as "not a repository" *)
checkRejected_reportsFalse(i) ==
  /\ i \in pendingChecks
  /\ checks' = [checks EXCEPT ![i].outcome = "rejected"]
  /\ isGitRepository' = "false"
  /\ dlgEvent' = [op |-> "checkRejected", arg |-> checks[i].path,
                  token |-> checks[i].token, answer |-> "null"]
  /\ UNCHANGED <<path, checkGitRepositoryToken, submits>>

(* The predicate's promise rejects: the await throws, the call ends *)
checkRejected(i) ==
  /\ i \in pendingChecks
  /\ checks' = [checks EXCEPT ![i].outcome = "rejected"]
  /\ dlgEvent' = [op |-> "checkRejected", arg |-> checks[i].path,
                  token |-> checks[i].token, answer |-> "null"]
  /\ UNCHANGED <<path, isGitRepository, checkGitRepositoryToken, submits>>

(* The form is submitted (the submit button is enabled): addRepository up  *)
(* to its await. log is the sequence of calls this call has made.          *)
addRepository ==
  /\ ~disabled
  /\ Len(submits) < MaxSubmits
  /\ submits' = Append(submits, [paths |-> <<resolvedPath(path)>>,
                                 pc |-> "await",
                                 returned |-> NotReturned,
                                 log |-> <<"addRepositories">>,
                                 selected |-> <<>>,
                                 dismissed |-> 0])
  /\ dlgEvent' = [op |-> "addRepository", arg |-> path, token |-> 0, answer |-> "null"]
  /\ UNCHANGED <<path, isGitRepository, checkGitRepositoryToken, checks>>

(* Variant: the dialog is dismissed only when a repository was returned *)
addRepositoriesReturned_dismissInsideIf(i, repositories) ==
  /\ i \in 1..Len(submits)
  /\ submits[i].pc = "await"
  /\ LET some == ~repositories.isNull /\ Len(repositories.items) > 0 IN
     submits' = [submits EXCEPT
       ![i].pc = "done",
       ![i].returned = repositories,
       ![i].log = @ \o (IF some THEN <<"selectRepository", "onDismissed">> ELSE <<>>),
       ![i].selected = IF some THEN <<repositories.items[1]>> ELSE <<>>,
       ![i].dismissed = IF some THEN @ + 1 ELSE @]
  /\ dlgEvent' = [op |-> "addRepositoriesReturned", arg |-> submits[i].paths[1],
                  token |-> 0, answer |-> "null"]
  /\ UNCHANGED <<path, isGitRepository, checkGitRepositoryToken, checks>>

(* addRepository after its await: addRepositories returned repositories *)
addRepositoriesReturned(i, repositories) ==
  /\ i \in 1..Len(submits)
  /\ submits[i].pc = "await"
  /\ LET some == ~repositories.isNull /\ Len(repositories.items) > 0 IN
     submits' = [submits EXCEPT
       ![i].pc = "done",
       ![i].returned = repositories,
       ![i].log = @ \o (IF some THEN <<"selectRepository">> ELSE <<>>) \o <<"onDismissed">>,
       ![i].selected = IF some THEN <<repositories.items[1]>> ELSE <<>>,
       ![i].dismissed = @ + 1]
  /\ dlgEvent' = [op |-> "addRepositoriesReturned", arg |-> submits[i].paths[1],
                  token |-> 0, answer |-> "null"]
  /\ UNCHANGED <<path, isGitRepository, checkGitRepositoryToken, checks>>

(* The dispatcher's promise rejects: the await throws, the call ends *)
addRepositoriesRejected(i) ==
  /\ i \in 1..Len(submits)
  /\ submits[i].pc = "await"
  /\ submits' = [submits EXCEPT ![i].pc = "rejected"]
  /\ dlgEvent' = [op |-> "addRepositoriesRejected", arg |-> submits[i].paths[1],
                  token |-> 0, answer |-> "null"]
  /\ UNCHANGED <<path, isGitRepository, checkGitRepositoryToken, checks>>

----------------------------------------------------------------------------
(* AuthorInput: the CodeMirror document *)

MaxText == 3       \* characters between the label and the placeholder

LabelText == <<"C", "o", "-", "A", "u", "t", "h", "o", "r", "s", " ">>

PlaceholderText == <<"@", "u", "s", "e", "r", "n", "a", "m", "e">>

(* Characters the user can type, and usernames the provider can return *)
TypedChars == {"@", "a", " ", "\n"}

Usernames == { <<"b">> }

Pos(line, ch) == [line |-> line, ch |-> ch]

(* The document's line separators, as 1-based indices into the content *)
lineBreaks(doc) == { i \in 1..Len(doc.text) : doc.text[i] = "\n" }

(* The number of the last line, for the line separators bs *)
lastLineOf(bs) == Cardinality(bs)

(* The document index at which line n starts, and the one at which it ends *)
lineStartOf(bs, n) ==
  IF n = 0 THEN 0
  ELSE CHOOSE i \in bs : Cardinality({ j \in bs : j <= i }) = n

lineEndOf(doc, bs, n) ==
  IF n = lastLineOf(bs) THEN Len(doc.text) ELSE lineStartOf(bs, n + 1) - 1

(* doc.getLine(n) *)
getLine(doc, n) ==
  LET bs == lineBreaks(doc) IN
  SubSeq(doc.text, lineStartOf(bs, n) + 1, lineEndOf(doc, bs, n))

(* String.prototype.charAt: the empty string outside the line *)
charAt(line, ch) == IF ch >= 0 /\ ch < Len(line) THEN line[ch + 1] ELSE ""

(* /\s/.test(c) *)
isWhitespace(c) == c \in {" ", "\t", "\n", "\r"}

(* CodeMirror clipPos: a position clipped to the document *)
clipPosOf(doc, bs, pos) ==
  IF pos.line < 0 THEN Pos(0, 0)
  ELSE IF pos.line > lastLineOf(bs)
       THEN Pos(lastLineOf(bs), lineEndOf(doc, bs, lastLineOf(bs)) - lineStartOf(bs, lastLineOf(bs)))
       ELSE LET linelen == lineEndOf(doc, bs, pos.line) - lineStartOf(bs, pos.line) IN
            IF pos.ch > linelen THEN Pos(pos.line, linelen)
            ELSE IF pos.ch < 0 THEN Pos(pos.line, 0)
            ELSE pos

clipPos(doc, pos) == clipPosOf(doc, lineBreaks(doc), pos)

(* doc.posFromIndex: the line the offset falls on and the offset within    *)
(* it; clamps below the start and beyond the end of the document           *)
posFromIndex(doc, off) ==
  \* the only line separators that matter lie at or before the offset
  IF off > Len(doc.text) THEN clipPos(doc, Pos(lastLineOf(lineBreaks(doc)) + 1, 0))
  ELSE IF off < 0 THEN clipPos(doc, Pos(0, off))
  ELSE LET before == { i \in 1..off : doc.text[i] = "\n" } IN
       Pos(Cardinality(before), off - lineStartOf(before, Cardinality(before)))

(* doc.indexFromPos *)
indexFromPos(doc, coords) ==
  LET bs == lineBreaks(doc)
      c == clipPosOf(doc, bs, coords)
  IN IF c.line < 0 \/ c.ch < 0 THEN 0
     ELSE c.ch + lineStartOf(bs, c.line)

(* doc.posFromIndex(Infinity): the end of the document *)
endPos(doc) == posFromIndex(doc, Len(doc.text) + 1)

(* doc.getRange(from, to) *)
getRange(doc, from, to) ==
  SubSeq(doc.text, indexFromPos(doc, from) + 1, indexFromPos(doc, to))

(* marker.find(): the marked range as positions *)
find(doc, mark) ==
  [from |-> posFromIndex(doc, mark.from), to |-> posFromIndex(doc, mark.to)]

posLE(a, b) == a.line < b.line \/ (a.line = b.line /\ a.ch <= b.ch)

(* doc.findMarksAt(pos): the markers whose range touches pos *)
findMarksAt(doc, pos) ==
  LET p == clipPos(doc, pos) IN
  { m \in doc.marks : posLE(find(doc, m).from, p) /\ posLE(p, find(doc, m).to) }

(* How a marker's range follows the replacement of [a, b) by str *)
markAfterChange(m, a, b, len) ==
  LET startsBefore == IF m.inclusiveLeft THEN m.from <= a ELSE m.from < a
      endsAfter == IF m.inclusiveRight THEN m.to >= b ELSE m.to > b
      delta == len - (b - a)
      newFrom == IF startsBefore THEN m.from
                 ELSE IF m.from >= b THEN m.from + delta ELSE a + len
      newTo == IF endsAfter THEN m.to + delta
               ELSE IF m.to <= a THEN m.to ELSE a
  IN [m EXCEPT !.from = newFrom, !.to = newTo]

(* doc.replaceRange(str, from, to): the document after the replacement;    *)
(* markers left empty are cleared                                          *)
replaceRange(doc, str, from, to) ==
  LET a == indexFromPos(doc, from)
      b == indexFromPos(doc, to)
      moved == { markAfterChange(m, a, b, Len(str)) : m \in doc.marks }
  IN [text |-> SubSeq(doc.text, 1, a) \o str \o SubSeq(doc.text, b + 1, Len(doc.text)),
      marks |-> { m \in moved : m.from < m.to }]

(* doc.markText(from, to, options) *)
markText(doc, from, to, options) ==
  [doc EXCEPT !.marks = @ \cup
     { [options EXCEPT !.from = indexFromPos(doc, from),
                       !.to = indexFromPos(doc, to)] }]

----------------------------------------------------------------------------
(* AuthorInput: helpers *)

previousPosition(doc, pos) == posFromIndex(doc, indexFromPos(doc, pos) - 1)

nextPosition(doc, pos) == posFromIndex(doc, indexFromPos(doc, pos) + 1)

(* Variant: only handles count as marked text *)
posIsInsideMarkedText_handlesOnly(doc, pos) ==
  LET ix == indexFromPos(doc, pos) IN
  \E mark \in { m \in findMarksAt(doc, pos) : m.kind = "handle" } :
    LET markPos == find(doc, mark)
        from == indexFromPos(doc, markPos.from)
        to == indexFromPos(doc, markPos.to)
    IN ix > from /\ ix < to

posIsInsideMarkedText(doc, pos) ==
  LET ix == indexFromPos(doc, pos) IN
  \E mark \in findMarksAt(doc, pos) :
    LET markPos == find(doc, mark)
        from == indexFromPos(doc, markPos.from)
        to == indexFromPos(doc, markPos.to)
    IN ix > from /\ ix < to

isMarkOrWhitespace(doc, pos) ==
  LET line == getLine(doc, pos.line) IN
  IF isWhitespace(charAt(line, pos.ch))
  THEN TRUE
  ELSE posIsInsideMarkedText(doc, pos)

(* The first loop of getHintRangeFromCursor. The loop cannot leave a       *)
(* position that previousPosition maps to itself: exits is FALSE there.    *)
RECURSIVE scanBackward(_, _)
scanBackward(doc, from) ==
  LET prev == previousPosition(doc, from) IN
  IF isMarkOrWhitespace(doc, prev) THEN [pos |-> from, exits |-> TRUE]
  ELSE IF prev = from THEN [pos |-> from, exits |-> FALSE]
  ELSE scanBackward(doc, prev)

(* The second loop of getHintRangeFromCursor *)
RECURSIVE scanForward(_, _)
scanForward(doc, to) ==
  LET next == nextPosition(doc, to) IN
  IF isMarkOrWhitespace(doc, next) THEN [pos |-> to, exits |-> TRUE]
  ELSE IF next = to THEN [pos |-> to, exits |-> FALSE]
  ELSE scanForward(doc, next)

getHintRangeFromCursor(doc, cursor) ==
  LET back == scanBackward(doc, cursor)
      forth == scanForward(doc, cursor)
  IN [from |-> back.pos, to |-> forth.pos, returns |-> back.exits /\ forth.exits]

HandleOptions ==
  [kind |-> "handle", from |-> 0, to |-> 0,
   atomic |-> TRUE, readOnly |-> FALSE, inclusiveLeft |-> FALSE, inclusiveRight |-> FALSE]

markRangeAsHandle(doc, from, to) == markText(doc, from, to, HandleOptions)

(* applyCompletion: the document after the completion text replaced the    *)
(* range from..to and was marked as a handle                               *)
(* Variant: the old end of the range is marked *)
applyCompletion_marksOldRange(doc, data, completion) ==
  LET from == IF "from" \in DOMAIN completion THEN completion.from ELSE data.from
      to == IF "to" \in DOMAIN completion THEN completion.to ELSE data.to
      txt == completion.text
      replaced == replaceRange(doc, txt, from, to)
  IN markRangeAsHandle(replaced, from, to)

(* completion.from || data.from: a completion without a from property      *)
(* takes the hint's range                                                  *)
applyCompletion(doc, data, completion) ==
  LET from == IF "from" \in DOMAIN completion THEN completion.from ELSE data.from
      to == IF "to" \in DOMAIN completion THEN completion.to ELSE data.to
      txt == completion.text
      replaced == replaceRange(doc, txt, from, to)
      end == posFromIndex(replaced, indexFromPos(replaced, from) + Len(txt))
  IN markRangeAsHandle(replaced, from, end)

(* appendTextMarker: text appended at the end of the document and marked *)
appendTextMarker(doc, str, options) ==
  LET from == endPos(doc)
      appended == replaceRange(doc, str, from, from)
      to == endPos(appended)
  IN markText(appended, from, to, options)

LabelOptions ==
  [kind |-> "label", from |-> 0, to |-> 0,
   atomic |-> TRUE, readOnly |-> TRUE, inclusiveLeft |-> TRUE, inclusiveRight |-> FALSE]

PlaceholderOptions ==
  [kind |-> "placeholder", from |-> 0, to |-> 0,
   atomic |-> TRUE, readOnly |-> TRUE, inclusiveLeft |-> FALSE, inclusiveRight |-> TRUE]

(* The document initializeCodeMirror builds *)
InitialDoc ==
  appendTextMarker(
    appendTextMarker([text |-> <<>>, marks |-> {}], LabelText, LabelOptions),
    PlaceholderText, PlaceholderOptions)

theDoc == [text |-> text, marks |-> marks]

label(doc) == CHOOSE m \in doc.marks : m.kind = "label"

placeholder(doc) == CHOOSE m \in doc.marks : m.kind = "placeholder"

(* Variant: the label's start is compared instead of its end *)
collapse_fromLabelStart(doc) ==
  LET labelRange == find(doc, label(doc))
      placeholderRange == find(doc, placeholder(doc))
  IN indexFromPos(doc, labelRange.from) # indexFromPos(doc, placeholderRange.from)

(* The cursorActivity handler's collapse value *)
collapse(doc) ==
  LET labelRange == find(doc, label(doc))
      placeholderRange == find(doc, placeholder(doc))
  IN indexFromPos(doc, labelRange.to) # indexFromPos(doc, placeholderRange.from)

asCollapsed(b) == IF b THEN "true" ELSE "false"

(* The cursorActivity handler's test: placeholder.collapsed !== collapse *)
collapsedDiffers(doc) == collapsed # asCollapsed(collapse(doc))

(* Variant: the handler does not look at hintActive *)
changesCallsShowHint_ignoresActive(doc, anch, hd, active) ==
  IF anch # hd
  THEN FALSE
  ELSE LET cursor == posFromIndex(doc, hd)
           previousPos == previousPosition(doc, cursor)
       IN IF posIsInsideMarkedText(doc, previousPos)
          THEN FALSE
          ELSE getRange(doc, previousPos, cursor) = <<"@">>

(* Variant: the handler does not look at the selection *)
changesCallsShowHint_ignoresSelection(doc, anch, hd, active) ==
  IF ~active
  THEN LET cursor == posFromIndex(doc, hd)
           previousPos == previousPosition(doc, cursor)
       IN IF posIsInsideMarkedText(doc, previousPos)
          THEN FALSE
          ELSE getRange(doc, previousPos, cursor) = <<"@">>
  ELSE FALSE

(* The changes handler: whether it calls showHint, for the document and    *)
(* selection it finds and the value of hintActive                          *)
changesCallsShowHint(doc, anch, hd, active) ==
  IF ~active
  THEN IF anch # hd
       THEN FALSE
       ELSE LET cursor == posFromIndex(doc, hd)
                previousPos == previousPosition(doc, cursor)
            IN IF posIsInsideMarkedText(doc, previousPos)
               THEN FALSE
               ELSE getRange(doc, previousPos, cursor) = <<"@">>
  ELSE FALSE

----------------------------------------------------------------------------
(* AuthorInput: operations *)

NoCmEvent ==
  [op |-> "none", cursorActivity |-> FALSE, changes |-> FALSE,
   showHint |-> FALSE, changed |-> FALSE]

EditorInit ==
  /\ text = InitialDoc.text
  /\ marks = InitialDoc.marks
  /\ anchor = Len(LabelText)
  /\ head = Len(LabelText)
  /\ hintActive = FALSE
  /\ collapsed = "undefined"
  /\ cmEvent = NoCmEvent

(* Where the editor lets the cursor rest: not inside or beyond the atomic  *)
(* label and placeholder, not inside an atomic handle                      *)
cursorAllowed(doc, i) ==
  /\ label(doc).to <= i
  /\ i <= placeholder(doc).from
  /\ \A m \in doc.marks : ~(m.from < i /\ i < m.to)

userTextLen(doc) == placeholder(doc).from - label(doc).to

selFrom == IF anchor <= head THEN anchor ELSE head

selTo == IF anchor <= head THEN head ELSE anchor

(* The handlers run at the end of an editor operation that left the        *)
(* document doc and the selection anch..hd: cursorActivity, then changes   *)
(* when the content changed; showHint signals startCompletion              *)
runHandlers(op, doc, anch, hd, contentChanged) ==
  \E differs \in { collapsedDiffers(doc) },
     callsShowHint \in { contentChanged /\ changesCallsShowHint(doc, anch, hd, hintActive) } :
     /\ text' = doc.text
     /\ marks' = doc.marks
     /\ anchor' = anch
     /\ head' = hd
     /\ collapsed' = IF differs THEN asCollapsed(collapse(doc)) ELSE collapsed
     /\ hintActive' = IF callsShowHint THEN TRUE ELSE hintActive
     /\ cmEvent' = [op |-> op, cursorActivity |-> TRUE, changes |-> contentChanged,
                    showHint |-> callsShowHint, changed |-> differs]

(* The user types a character, or text is dropped (and stays selected):    *)
(* the selection is replaced by str                                        *)
replaceSelection(str, selectAround) ==
  /\ Len(str) > 0 \/ anchor # head
  /\ userTextLen(theDoc) - (selTo - selFrom) + Len(str) <= MaxText
  /\ \E doc \in { replaceRange(theDoc, str, posFromIndex(theDoc, selFrom),
                                 posFromIndex(theDoc, selTo)) } :
     LET end == selFrom + Len(str)
     IN runHandlers(IF selectAround THEN "drop" ELSE "input", doc,
                    IF selectAround THEN selFrom ELSE end, end, TRUE)

(* Backspace with an empty selection: the character, or the whole atomic   *)
(* handle, before the cursor is deleted; nothing before the label's end    *)
deleteCharBefore ==
  /\ anchor = head
  /\ head > label(theDoc).to
  /\ LET start == IF \E m \in marks : m.to = head
                  THEN (CHOOSE m \in marks : m.to = head).from
                  ELSE head - 1
     IN \E doc \in { replaceRange(theDoc, <<>>, posFromIndex(theDoc, start),
                                   posFromIndex(theDoc, head)) } :
          runHandlers("delete", doc, start, start, TRUE)

(* The cursor is moved (the selection collapses to hd), or the selection   *)
(* is extended (its head moves to hd, its anchor stays)                    *)
setSelection(hd, extend) ==
  /\ cursorAllowed(theDoc, hd)
  /\ LET anch == IF extend THEN anchor ELSE hd IN
     /\ <<anch, hd>> # <<anchor, head>>
     /\ runHandlers("select", theDoc, anch, hd, FALSE)

(* Ctrl-Space: the autocomplete command calls showHint, which does nothing *)
(* while something is selected and else signals startCompletion            *)
autocomplete ==
  /\ anchor = head
  /\ hintActive' = TRUE
  /\ cmEvent' = [NoCmEvent EXCEPT !.op = "autocomplete"]
  /\ UNCHANGED <<text, marks, anchor, head, collapsed>>

(* The suggestion list is closed: the endCompletion handler *)
endCompletion ==
  /\ hintActive
  /\ hintActive' = FALSE
  /\ cmEvent' = [NoCmEvent EXCEPT !.op = "endCompletion"]
  /\ UNCHANGED <<text, marks, anchor, head, collapsed>>

(* An item of the hint function's list: text `@${h.username}`, no range of *)
(* its own                                                                 *)
hintListItem(username) == [text |-> <<"@">> \o username]

(* A suggestion is picked: the hint function's range for the cursor is     *)
(* replaced by "@username" and marked, the handlers run while the list is  *)
(* still open, then the list closes                                        *)
pick(username) ==
  /\ hintActive
  /\ anchor = head
  /\ \E data \in { getHintRangeFromCursor(theDoc, posFromIndex(theDoc, head)) } :
     LET completion == hintListItem(username)
         a == indexFromPos(theDoc, data.from)
         b == indexFromPos(theDoc, data.to)
         end == a + Len(completion.text)
     IN /\ data.returns
        /\ userTextLen(theDoc) - (b - a) + Len(completion.text) <= MaxText
        /\ \E doc \in { applyCompletion(theDoc, data, completion) } :
           \E differs \in { collapsedDiffers(doc) } :
             /\ text' = doc.text
             /\ marks' = doc.marks
             /\ anchor' = end
             /\ head' = end
             /\ collapsed' = IF differs THEN asCollapsed(collapse(doc)) ELSE collapsed
             /\ hintActive' = FALSE
             /\ cmEvent' = [op |-> "pick", cursorActivity |-> TRUE, changes |-> TRUE,
                            showHint |-> changesCallsShowHint(doc, end, end, hintActive),
                            changed |-> differs]

----------------------------------------------------------------------------
(* AuthorInput: refresh on resize *)

MaxResizes == 5    \* animation frame requests in one behaviour

(* this.resizeDebounceId = null; request ids are positive *)
NullId == 0

(* entries.length of a ResizeObserver notification *)
EntryCounts == {0, 1, 2}

ResizeInit ==
  /\ editor = FALSE
  /\ resizeDebounceId = NullId
  /\ frameCallbacks = {}
  /\ lastRequestId = 0
  /\ frameRefreshes = 0
  /\ rsEvent = "none"

(* onContainerRef: the container is mounted (elem) or unmounted (null);    *)
(* the observer observes the element, or is disconnected                   *)
onContainerRef(elem) ==
  /\ editor = ~elem
  /\ editor' = elem
  /\ rsEvent' = IF elem THEN "mounted" ELSE "unmounted"
  /\ UNCHANGED <<resizeDebounceId, frameCallbacks, lastRequestId, frameRefreshes>>

(* The ResizeObserver callback, with n entries. The observer notifies only *)
(* while it observes the container. The id requestAnimationFrame returns   *)
(* is not stored.                                                          *)
resizeObserved(n) ==
  /\ editor
  /\ lastRequestId < MaxResizes
  /\ IF n >= 1 /\ editor
     THEN /\ frameCallbacks' =
               (IF resizeDebounceId # NullId
                THEN frameCallbacks \ {resizeDebounceId}
                ELSE frameCallbacks) \cup {lastRequestId + 1}
          /\ resizeDebounceId' = (IF resizeDebounceId # NullId THEN NullId ELSE resizeDebounceId)
          /\ lastRequestId' = lastRequestId + 1
     ELSE UNCHANGED <<frameCallbacks, resizeDebounceId, lastRequestId>>
  /\ rsEvent' = IF n >= 1 THEN "resize" ELSE "resizeNoEntries"
  /\ UNCHANGED <<editor, frameRefreshes>>

(* An animation frame: the browser runs every pending callback, each a     *)
(* call of onResized                                                       *)
animationFrame ==
  /\ frameCallbacks # {}
  /\ frameCallbacks' = {}
  /\ resizeDebounceId' = NullId
  /\ frameRefreshes' = IF editor THEN Cardinality(frameCallbacks) ELSE 0
  /\ rsEvent' = "frame"
  /\ UNCHANGED <<editor, lastRequestId>>

----------------------------------------------------------------------------
(* Specifications *)

DialogNext ==
  /\ \/ \E p \in TypedPaths : onPathChanged(p)
     \/ \E d \in PickerResults : showFilePicker(d)
     \/ \E i \in 1..MaxChecks, isRepo \in {"true", "false"} : checkResolved(i, isRepo)
     \/ \E i \in 1..MaxChecks : checkRejected(i)
     \/ addRepository
     \/ \E i \in 1..MaxSubmits :
          \E r \in AddRepositoriesResults(IF i <= Len(submits) THEN submits[i].paths ELSE <<>>) :
            addRepositoriesReturned(i, r)
     \/ \E i \in 1..MaxSubmits : addRepositoriesRejected(i)
  /\ UNCHANGED <<editorVars, resizeVars>>

EditorNext ==
  /\ \/ \E c \in TypedChars, selectAround \in BOOLEAN : replaceSelection(<<c>>, selectAround)
     \/ replaceSelection(<<>>, FALSE)
     \/ deleteCharBefore
     \/ \E hd \in Len(LabelText)..(Len(LabelText) + MaxText), extend \in BOOLEAN :
          setSelection(hd, extend)
     \/ autocomplete
     \/ endCompletion
     \/ \E u \in Usernames : pick(u)
  /\ UNCHANGED <<dialogVars, resizeVars>>

ResizeNext ==
  /\ \/ \E elem \in BOOLEAN : onContainerRef(elem)
     \/ \E n \in EntryCounts : resizeObserved(n)
     \/ animationFrame
  /\ UNCHANGED <<dialogVars, editorVars>>

Init == DialogInit /\ EditorInit /\ ResizeInit

DialogSpec == Init /\ [][DialogNext]_vars

EditorSpec == Init /\ [][EditorNext]_vars

ResizeSpec == Init /\ [][ResizeNext]_vars

(* The path checks alone, with the fairness of the event loop: a check     *)
(* whose promise has settled resumes, and every promise of the predicate   *)
(* settles (the predicate answers or fails in the end)                     *)
checkSettles ==
  \E i \in 1..MaxChecks :
    \/ \E isRepo \in {"true", "false"} : checkResolved(i, isRepo)
    \/ checkRejected(i)

ChecksNext ==
  /\ \/ \E p \in TypedPaths : onPathChanged(p)
     \/ \E d \in PickerResults : showFilePicker(d)
     \/ checkSettles
  /\ UNCHANGED <<editorVars, resizeVars>>

ChecksFairSpec == Init /\ [][ChecksNext]_vars /\ WF_vars(ChecksNext /\ checkSettles)

----------------------------------------------------------------------------
(* AddExistingRepository: properties *)

latestCheck == checks[Len(checks)]

issuesCheck(op) == op \in {"onPathChanged", "showFilePickerChosen"}

(* C1: once a check has been issued, the validity flag is pending or is    *)
(* the answer given to the most recently issued check, which is the check  *)
(* for the current state.path; never the answer given to an earlier check  *)
C1_FlagIsLatestAnswer ==
  Len(checks) > 0 =>
    /\ latestCheck.path = path
    /\ latestCheck.token = checkGitRepositoryToken
    /\ \/ isGitRepository = "null"
       \/ isGitRepository = latestCheck.outcome

(* C1 witness: the superseded check answered "true" after the latest check *)
(* answered "false", and the flag shows the latest answer                  *)
C1_Witness ==
  /\ Len(checks) = 2
  /\ checks[1].outcome = "true"
  /\ checks[2].outcome = "false"
  /\ checks[1].path # checks[2].path
  /\ dlgEvent.op = "checkResolved"
  /\ dlgEvent.token = 1
  /\ isGitRepository = "false"

(* C2: a result that arrives with a token other than the current one is    *)
(* discarded: it changes neither state.path nor the validity flag          *)
C2_StaleResultDiscarded ==
  [][ (dlgEvent'.op = "checkResolved" /\ dlgEvent'.token # checkGitRepositoryToken)
        => (path' = path /\ isGitRepository' = isGitRepository) ]_dialogVars

(* C2 witness: a superseded check has just delivered an answer that is not *)
(* the one shown, after the newer check had completed                      *)
C2_Witness ==
  /\ dlgEvent.op = "checkResolved"
  /\ dlgEvent.token < checkGitRepositoryToken
  /\ latestCheck.outcome \in {"true", "false"}
  /\ dlgEvent.answer # isGitRepository
  /\ dlgEvent.arg # path

(* C3: the token starts at 0, grows by exactly 1 with every call of        *)
(* checkIfPathIsRepository and is changed by nothing else; issued checks   *)
(* hold distinct tokens and the counter is the latest check's token        *)
C3_TokenMonotonic ==
  /\ checkGitRepositoryToken = 0
  /\ [][ IF Len(checks') = Len(checks) + 1
         THEN checkGitRepositoryToken' = checkGitRepositoryToken + 1
         ELSE /\ Len(checks') = Len(checks)
              /\ checkGitRepositoryToken' = checkGitRepositoryToken ]_dialogVars
  /\ [][ issuesCheck(dlgEvent'.op) <=> Len(checks') = Len(checks) + 1 ]_dialogVars
  /\ [](\A i, j \in 1..Len(checks) : i < j => checks[i].token < checks[j].token)
  /\ [](Len(checks) > 0 => checkGitRepositoryToken = latestCheck.token)

(* C3 witness: several checks were issued and completions, a cancelled     *)
(* picker and a submit have happened since                                  *)
C3_Witness ==
  /\ Len(checks) = MaxChecks
  /\ checkGitRepositoryToken = MaxChecks
  /\ pendingChecks = {}
  /\ Len(submits) > 0

(* C4: every path change issues exactly one check for the new path and,    *)
(* in the same step, sets state.path to it and the flag to pending, also   *)
(* when the new path equals the previous one                               *)
C4_PathChangeIssuesCheck ==
  [][ issuesCheck(dlgEvent'.op) =>
        /\ path' = dlgEvent'.arg
        /\ isGitRepository' = "null"
        /\ Len(checks') = Len(checks) + 1
        /\ SubSeq(checks', 1, Len(checks)) = checks
        /\ checks'[Len(checks')].path = dlgEvent'.arg
        /\ checks'[Len(checks')].arg = resolvedPath(dlgEvent'.arg)
        /\ checks'[Len(checks')].outcome = "pending" ]_dialogVars

(* C4 witness: the same path was entered again after its check had         *)
(* answered, and the flag is pending again with a second check in flight   *)
C4_Witness ==
  /\ Len(checks) >= 2
  /\ checks[Len(checks) - 1].path = latestCheck.path
  /\ checks[Len(checks) - 1].outcome = "true"
  /\ latestCheck.outcome = "pending"
  /\ issuesCheck(dlgEvent.op)
  /\ isGitRepository = "null"

(* C5: a rejected check changes neither state.path nor the flag, and while *)
(* the most recently issued check is a rejected one the flag is pending    *)
C5_RejectionLeavesPending ==
  /\ [][ dlgEvent'.op = "checkRejected"
           => (path' = path /\ isGitRepository' = isGitRepository) ]_dialogVars
  /\ []( (Len(checks) > 0 /\ latestCheck.outcome = "rejected")
           => isGitRepository = "null" )

(* C5 witness: the latest check was rejected, an earlier one answered      *)
(* afterwards, and the flag is still pending                               *)
C5_Witness ==
  /\ Len(checks) >= 2
  /\ latestCheck.outcome = "rejected"
  /\ dlgEvent.op = "checkResolved"
  /\ isGitRepository = "null"

(* C6: a cancelled picker leaves state.path, the flag, the token and the   *)
(* checks in flight as they are                                            *)
C6_CancelledPickerNoEffect ==
  [][ dlgEvent'.op = "showFilePickerCancelled"
        => UNCHANGED <<path, isGitRepository, checkGitRepositoryToken, checks>> ]_dialogVars

(* C6 witness: the picker was cancelled while the check for the current    *)
(* path was in flight, and that check is still the current one             *)
C6_Witness ==
  /\ dlgEvent.op = "showFilePickerCancelled"
  /\ Len(checks) > 0
  /\ latestCheck.outcome = "pending"
  /\ tokenIsCurrent(latestCheck.token)
  /\ isGitRepository = "null"

(* C7 as stated: addRepositories is called only while the flag is true     *)
C7_SubmitOnlyWhenRepository ==
  [][ dlgEvent'.op = "addRepository" => isGitRepository = "true" ]_dialogVars

(* C7 amended: addRepositories is called only while state.path is          *)
(* non-empty and the flag is not pending, that is, the flag is the answer  *)
(* (true or false) given to the check for the current path                 *)
C7_SubmitOnlyWhenAnswered ==
  [][ dlgEvent'.op = "addRepository" =>
        /\ Len(path) > 0
        /\ isGitRepository \in {"true", "false"}
        /\ Len(checks) > 0
        /\ latestCheck.path = path
        /\ latestCheck.outcome = isGitRepository
        /\ submits'[Len(submits')].paths = <<resolvedPath(path)>> ]_dialogVars

(* C7 witness: a path the predicate reported as not a repository was       *)
(* forwarded to the dispatcher                                             *)
C7_Witness ==
  /\ dlgEvent.op = "addRepository"
  /\ isGitRepository = "false"
  /\ latestCheck.outcome = "false"
  /\ Len(submits) > 0

----------------------------------------------------------------------------
(* AuthorInput: properties *)

(* Index i lies strictly inside one of the markers ms *)
strictlyInside(ms, i) == \E m \in ms : m.from < i /\ i < m.to

(* C8: on a changes event showHint is requested if and only if no          *)
(* completion is active, nothing is selected, the position before the      *)
(* cursor is not strictly inside a marked span and the character between   *)
(* that position and the cursor is '@'                                     *)
C8_ShowHintIffAtTyped ==
  [][ cmEvent'.changes =>
        ( cmEvent'.showHint <=>
            /\ ~hintActive
            /\ anchor' = head'
            /\ ~strictlyInside(marks', head' - 1)
            /\ head' >= 1
            /\ text'[head'] = "@" ) ]_editorVars

(* C8 witness: an '@' was typed after other text and the list was opened *)
C8_Witness ==
  /\ cmEvent.op = "input"
  /\ cmEvent.changes
  /\ cmEvent.showHint
  /\ hintActive
  /\ head > Len(LabelText) + 1
  /\ text[head] = "@"

(* The cursors C9 is about: not strictly inside a marked span, and such    *)
(* that getHintRangeFromCursor returns                                     *)
hintCursors ==
  { c \in 0..Len(text) :
      /\ ~strictlyInside(marks, c)
      /\ getHintRangeFromCursor(theDoc, posFromIndex(theDoc, c)).returns }

(* C9: for a cursor that is not strictly inside a marked span the range    *)
(* getHintRangeFromCursor returns contains the cursor, its text holds no   *)
(* whitespace character, and no position strictly between its ends lies    *)
(* strictly inside a marked span                                           *)
C9_HintRangeUnmarkedWord ==
  \A c \in hintCursors :
    LET range == getHintRangeFromCursor(theDoc, posFromIndex(theDoc, c))
        from == indexFromPos(theDoc, range.from)
        to == indexFromPos(theDoc, range.to)
    IN /\ from <= c
       /\ c <= to
       /\ \A i \in (from + 1)..to : ~isWhitespace(text[i])
       /\ \A i \in (from + 1)..(to - 1) : ~strictlyInside(marks, i)

(* C10: after a cursorActivity event the placeholder is collapsed if and   *)
(* only if the label's end and the placeholder's start differ, that is,    *)
(* there is text between them; changed() is signalled only when the        *)
(* collapsed value changes                                                 *)
C10_PlaceholderInSync ==
  [][ cmEvent'.cursorActivity =>
        LET doc == [text |-> text', marks |-> marks'] IN
        /\ collapsed' \in {"true", "false"}
        /\ (collapsed' = "true") <=> (label(doc).to # placeholder(doc).from)
        /\ (collapsed' = "true") <=> (Len(text') > Len(LabelText) + Len(PlaceholderText))
        /\ cmEvent'.changed => collapsed' # collapsed ]_editorVars

(* C10 witness: the last character between label and placeholder was       *)
(* deleted, the placeholder was expanded again and changed() signalled     *)
C10_Witness ==
  /\ cmEvent.op = "delete"
  /\ cmEvent.cursorActivity
  /\ cmEvent.changed
  /\ collapsed = "false"
  /\ Len(text) = Len(LabelText) + Len(PlaceholderText)

----------------------------------------------------------------------------
(* AddExistingRepository: properties of submit *)

(* C12: a submit calls addRepositories once, with the one tilde-expanded   *)
(* state.path; selectRepository is called only after that call returned,   *)
(* with the first returned record and only for a non-empty result; and     *)
(* once the call has returned onDismissed has been called exactly once,    *)
(* after those calls, whatever was returned                                *)
C12_SubmitCallOrder ==
  /\ [][ dlgEvent'.op = "addRepository" =>
           /\ Len(submits') = Len(submits) + 1
           /\ SubSeq(submits', 1, Len(submits)) = submits
           /\ submits'[Len(submits')].paths = <<untildify(path)>>
           /\ submits'[Len(submits')].log = <<"addRepositories">> ]_dialogVars
  /\ [](\A i \in 1..Len(submits) :
          LET s == submits[i]
              some == ~s.returned.isNull /\ Len(s.returned.items) > 0
          IN /\ Len(s.paths) = 1
             /\ s.pc # "done" =>
                  s.log = <<"addRepositories">> /\ s.selected = <<>> /\ s.dismissed = 0
             /\ (s.pc = "done" /\ some) =>
                  /\ s.log = <<"addRepositories", "selectRepository", "onDismissed">>
                  /\ s.selected = <<s.returned.items[1]>>
                  /\ s.dismissed = 1
             /\ (s.pc = "done" /\ ~some) =>
                  /\ s.log = <<"addRepositories", "onDismissed">>
                  /\ s.selected = <<>>
                  /\ s.dismissed = 1)

(* C12 witness: a submit of "~/r" was forwarded tilde-expanded, came back  *)
(* with an empty list, and the dialog was dismissed without a selection    *)
C12_Witness ==
  /\ Len(submits) > 0
  /\ submits[1].paths = << <<"/", "h", "/", "r">> >>
  /\ submits[1].pc = "done"
  /\ ~submits[1].returned.isNull
  /\ submits[1].returned.items = <<>>
  /\ submits[1].selected = <<>>
  /\ submits[1].dismissed = 1

(* C13: submit is disabled exactly when state.path is empty or the flag   *)
(* is pending; so while the most recently issued check has not completed   *)
(* the flag is pending and submit is disabled                              *)
C13_DisabledWhilePending ==
  /\ disabled <=> (path = <<>> \/ isGitRepository = "null")
  /\ (Len(checks) > 0 /\ latestCheck.outcome = "pending")
       => (isGitRepository = "null" /\ disabled /\ ~ENABLED addRepository)

(* C13 witness: a non-empty path was confirmed as a repository, then       *)
(* entered again; its second check is in flight and submit is disabled     *)
C13_Witness ==
  /\ Len(checks) = 2
  /\ checks[1].outcome = "true"
  /\ checks[1].path = path
  /\ latestCheck.outcome = "pending"
  /\ Len(path) > 0
  /\ disabled

(* C14: once path changes have stopped and every issued check has been    *)
(* answered, the flag is for good non-null and equal to the answer given   *)
(* for the final path, however many superseded checks were in flight and   *)
(* in whatever order they completed (a final check that was rejected, not  *)
(* answered, is outside the claim)                                         *)
C14_FlagSettlesOnLatestAnswer ==
  <>[]( Len(checks) > 0 =>
          \/ latestCheck.outcome = "rejected"
          \/ /\ latestCheck.path = path
             /\ isGitRepository \in {"true", "false"}
             /\ isGitRepository = latestCheck.outcome )

(* C14 witness: every check has completed, a superseded check completing   *)
(* last with the opposite answer, and the flag is the final path's answer  *)
C14_Witness ==
  /\ Len(checks) >= 2
  /\ pendingChecks = {}
  /\ latestCheck.outcome = "true"
  /\ checks[1].outcome = "false"
  /\ dlgEvent.op = "checkResolved"
  /\ dlgEvent.token = 1
  /\ isGitRepository = "true"

----------------------------------------------------------------------------
(* AuthorInput, refresh on resize: properties *)

(* C11: resize notifications that arrive before the animation frame cancel *)
(* the refresh scheduled before, so at most one refresh callback is        *)
(* pending at any time and a frame refreshes the editor at most once       *)
C11_RefreshDebounced ==
  /\ Cardinality(frameCallbacks) <= 1
  /\ frameRefreshes <= 1

----------------------------------------------------------------------------
(* AuthorInput: properties of completion *)

(* The editor operations during which startCompletion / endCompletion is   *)
(* signalled last                                                          *)
signalsStart(ev) == ev.showHint \/ ev.op = "autocomplete"

signalsEnd(ev) == ev.op \in {"endCompletion", "pick"}

(* C15: hintActive is false initially, true from a startCompletion event   *)
(* to the next endCompletion event and false after it, and while it is     *)
(* true no changes event requests showHint                                 *)
C15_HintActiveBetweenStartAndEnd ==
  /\ hintActive = FALSE
  /\ [][ /\ signalsStart(cmEvent') => hintActive'
         /\ signalsEnd(cmEvent') => ~hintActive'
         /\ (~signalsStart(cmEvent') /\ ~signalsEnd(cmEvent')) => hintActive' = hintActive
         /\ (cmEvent'.changes /\ hintActive) => ~cmEvent'.showHint ]_editorVars

(* C15 witness: an '@' was typed while the list was open; showHint was not *)
(* requested again and the list is still the open one                      *)
C15_Witness ==
  /\ cmEvent.op = "input"
  /\ cmEvent.changes
  /\ ~cmEvent.showHint
  /\ hintActive
  /\ anchor = head
  /\ text[head] = "@"
  /\ ~strictlyInside(marks, head - 1)

(* C16: for every cursor between the label's end and the placeholder's     *)
(* start both scanning loops of getHintRangeFromCursor stop, although      *)
(* previousPosition and nextPosition clamp at the document's ends          *)
C16_HintRangeTerminates ==
  \A c \in label(theDoc).to..placeholder(theDoc).from :
    LET cursor == posFromIndex(theDoc, c) IN
    /\ scanBackward(theDoc, cursor).exits
    /\ scanForward(theDoc, cursor).exits

(* C16 witness: the text between label and placeholder holds no whitespace *)
(* and no handle, so the loops run from the cursor to the label's end and  *)
(* to the placeholder's start and stop there                               *)
C16_Witness ==
  /\ userTextLen(theDoc) = MaxText
  /\ \A m \in marks : m.kind # "handle"
  /\ \A i \in (label(theDoc).to + 1)..placeholder(theDoc).from : ~isWhitespace(text[i])
  /\ head = label(theDoc).to + 1
  /\ LET range == getHintRangeFromCursor(theDoc, posFromIndex(theDoc, head)) IN
     /\ range.returns
     /\ indexFromPos(theDoc, range.from) = label(theDoc).to
     /\ indexFromPos(theDoc, range.to) = placeholder(theDoc).from

(* The handles among a set of markers *)
handles(ms) == { m \in ms : m.kind = "handle" }

====
